---- MODULE Spec2Model ----
(***************************************************************************)
(* Model of the Avro record-level wrappers (confluent_kafka/avro) and of   *)
(* the primitive serializers (confluent_kafka/serialization/serializers).  *)
(*                                                                         *)
(* One caller thread makes one call at a time: AvroProducer.produce and    *)
(* AvroConsumer.poll statement by statement, a direct call of              *)
(* _AvroProducerSerializer.serialize, or a primitive deserialize on a byte *)
(* string drawn from a bounded set.  events, regLog, sent, passed and      *)
(* polled record what the call in progress did and was given.              *)
(***************************************************************************)
EXTENDS Integers, Sequences, FiniteSets, TLC

VARIABLES
    pc,            \* position of the single caller thread
    producer,      \* AvroProducer: its two _AvroProducerSerializer instances
    regUp,         \* whether the registry answers round trips during this call
    topic,         \* produce: argument topic
    passed,        \* produce: the keyword arguments as the caller passed them
    kwargs,        \* produce: the keyword arguments (mutated by pop)
    key,           \* produce: local key (datum, then serialized payload)
    value,         \* produce: local value (datum, then serialized payload)
    key_schema,    \* produce: local key_schema
    value_schema,  \* produce: local value_schema
    ctx,           \* produce: local ctx, a reference into heap
    heap,          \* SerializationContext objects allocated by this call
    events,        \* serializer / transport calls made by this call, in order
    regLog,        \* registry client calls made by this call, in order
    sent,          \* arguments of the transport produce calls of this call
    raised,        \* exception that reached the caller of this call
    polled,        \* poll: the record as the transport returned it
    message,       \* poll: the Message object returned by the transport
    ret,           \* poll: what the call returned ("None", "message", "")
    ser,           \* direct call of _AvroProducerSerializer.serialize
    codec,         \* primitive serializer under test
    py,            \* interpreter major version the package runs on
    data,          \* primitive deserialize: the input bytes
    result,        \* primitive deserialize: outcome
    input,         \* primitive serialize: the argument datum
    packed,        \* primitive serialize: outcome
    wire,          \* direct call of frame / unframe: arguments and outcome
    id_to_schema,  \* registry client: the cache of schemas by id
    threads        \* registry client: the get_by_id call of each thread

vars == << pc, producer, regUp, topic, passed, kwargs, key, value,
           key_schema, value_schema, ctx, heap, events, regLog, sent, raised,
           polled, message, ret, ser, codec, py, data, result, input, packed, wire,
           id_to_schema, threads >>

wrapperVars == << pc, producer, regUp, topic, passed, kwargs, key,
                  value, key_schema, value_schema, ctx, heap, events, regLog,
                  sent, raised, polled, message, ret, ser >>

wrapperVarsButPc == << producer, regUp, topic, passed, kwargs, key, value, key_schema,
                       value_schema, ctx, heap, events, regLog, sent, raised,
                       polled, message, ret, ser >>

codecVars == << codec, py, data, result, input, packed >>

wireVars == << wire >>

registryVars == << id_to_schema, threads >>

-----------------------------------------------------------------------------
(* Bounds                                                                  *)

MaxOffset == 1
MaxPartition == 1
NThreads == 3

-----------------------------------------------------------------------------
(* Python values.  One record shape for None, bytes and application        *)
(* objects so that any two values can be compared.                         *)

PyNone == [t |-> "none", b |-> << >>, v |-> ""]
PyBytes(b) == [t |-> "bytes", b |-> b, v |-> ""]
PyObj(v) == [t |-> "obj", b |-> << >>, v |-> v]

\* Outcome of a primitive conversion: kind "ok" with the decoded value, kind
\* "None" for a None result, or the class of the exception raised with cause
\* naming what it was built from.
Returned(v) == [kind |-> "ok", value |-> v, cause |-> ""]
ReturnedNone == [kind |-> "None", value |-> << >>, cause |-> ""]
Raised(kind, cause) == [kind |-> kind, value |-> << >>, cause |-> cause]
NoResult == [kind |-> "", value |-> << >>, cause |-> ""]
NoCodec == [class |-> "", codec |-> ""]

\* The argument of a primitive serialize: None, or a number or text v.  An
\* integer is << n >> or, beyond 32 bits, the limbs << l1, l2, l3, l4 >> of
\* l1 * 2^48 + l2 * 2^32 + l3 * 2^16 + l4; a float is the sign, biased
\* exponent and fraction limbs (4, 16, 16, 16 bits) of its IEEE 754 double;
\* text is its sequence of code points.
NoneValue == [none |-> TRUE, v |-> << >>]
Value(v) == [none |-> FALSE, v |-> v]

Topics == {"t1", "t2"}
NoneSchema == "None"
Schemas == {"S1", "S2"}
Datums == {"a", "b", "objA"}

NoError == [kind |-> "none", fmt |-> "", topic |-> "", partition |-> -1,
            offset |-> -1, cause |-> ""]

\* An exception of class kind whose message is the text cause.
Error(kind, cause) == [kind |-> kind, fmt |-> "{}", topic |-> "",
                       partition |-> -1, offset |-> -1, cause |-> cause]

-----------------------------------------------------------------------------
(* Big-endian two's complement, as struct.pack / struct.unpack compute it. *)

Pow256(n) == IF n = 0 THEN 1 ELSE IF n = 1 THEN 256
             ELSE IF n = 2 THEN 65536 ELSE 16777216

\* the w low-order bytes of n >= 0, most significant first (w <= 4)
BytesBE(n, w) == [i \in 1..w |-> (n \div Pow256(w - i)) % 256]

PackSigned(v, w) ==
    IF v >= 0 THEN BytesBE(v, w)
    ELSE [i \in 1..w |-> 255 - BytesBE(-(v + 1), w)[i]]

RECURSIVE UnsignedBE(_)
UnsignedBE(b) ==
    IF Len(b) = 0 THEN 0
    ELSE UnsignedBE(SubSeq(b, 1, Len(b) - 1)) * 256 + b[Len(b)]

UnpackSigned(b) ==
    IF b[1] < 128 THEN UnsignedBE(b)
    ELSE -(UnsignedBE([i \in 1..Len(b) |-> 255 - b[i]])) - 1

-----------------------------------------------------------------------------
(* Schema registry, schema-encoding engine and wire framing.  Their code   *)
(* (cached_schema_registry_client.py, serialization/avro.py) is imported   *)
(* by avro/__init__.py; they are modelled from their documented contract.  *)

MagicByte == 0

\* the id the registry assigns to a schema
SchemaId(schema) == IF schema = "S1" THEN 1 ELSE 258

KnownIds == {SchemaId(s) : s \in Schemas}

SchemaOfId(id) == CHOOSE s \in Schemas : SchemaId(s) = id

\* subject name derived from the context: "<topic>-key" / "<topic>-value"
SubjectName(c) == c.topic \o (IF c.field = "KEY" THEN "-key" ELSE "-value")

\* schema-encoding engine: which structural values a schema accepts
Conforms(schema, d) == (schema = "S1" /\ d = "a") \/ (schema = "S2" /\ d = "b")

EncodeBody(d) == IF d = "a" THEN << 2 >> ELSE << 4, 6 >>

DecodableBody(schema, body) ==
    \E d \in Datums : Conforms(schema, d) /\ EncodeBody(d) = body

DecodeBody(schema, body) ==
    CHOOSE d \in Datums : Conforms(schema, d) /\ EncodeBody(d) = body

\* object-to-dict projection hook (converter.to_dict)
ToDict(d) == IF d = "objA" THEN "a" ELSE d

frame(schemaId, body) == << MagicByte >> \o PackSigned(schemaId, 4) \o body

\* unframe testing the length only
unframe_ok_length_only(b) == Len(b) >= 5

unframe_ok(b) == Len(b) >= 5 /\ b[1] = MagicByte

\* unframe taking the body from the last header byte on
unframe_body_from_header(b) ==
    [id |-> UnpackSigned(SubSeq(b, 2, 5)), body |-> SubSeq(b, 5, Len(b))]

unframe(b) == [id |-> UnpackSigned(SubSeq(b, 2, 5)), body |-> SubSeq(b, 6, Len(b))]

\* a call of unframe: the pair it returns, or the error it fails with
try_unframe(b) ==
    IF unframe_ok(b)
    THEN [ok |-> TRUE, kind |-> "", out |-> << unframe(b) >>]
    ELSE [ok |-> FALSE, kind |-> "MalformedPayloadError", out |-> << >>]

RegEvent(op, subject, schema, id) ==
    [op |-> op, subject |-> subject, schema |-> schema, id |-> id]

\* CachedSchemaRegistryClient.register(subject, schema) as the serializer
\* sees it: the id of the schema, or a failure when the registry does not
\* answer.
register(up, subject, schema) ==
    IF up THEN [ok |-> TRUE, id |-> SchemaId(schema), err |-> ""]
    ELSE [ok |-> FALSE, id |-> -1, err |-> "registry unavailable"]

\* CachedSchemaRegistryClient.get_by_id(id) as the deserializer sees it
get_by_id(up, id) ==
    IF ~up THEN [ok |-> FALSE, err |-> "registry unavailable"]
    ELSE IF id \in KnownIds THEN [ok |-> TRUE, err |-> ""]
    ELSE [ok |-> FALSE, err |-> "schema not found"]

\* Exception classes caught by "except SerializerError": SerializerError and
\* its subclasses.
SerializerErrorKinds ==
    {"SerializerError", "SerializationConfigError", "MalformedPayloadError",
     "KeySerializerError", "ValueSerializerError"}

\* Outcome of one serializer call: kind is the class of the exception raised
\* ("" when the call returns), err its message, out the value returned, log
\* the registry client calls made.
Outcome(kind, out, err, log, conv) ==
    [ok |-> kind = "", kind |-> kind, out |-> out, err |-> err, log |-> log,
     converted |-> conv]

\* _encode resolving the subject's id before it looks at the schema
AvroSerializer_encode_register_first(schema, d, cobj, up) ==
    LET r == register(up, SubjectName(cobj), schema)
        log == << RegEvent("register", SubjectName(cobj), schema, r.id) >>
    IN  IF ~r.ok
        THEN Outcome("SerializerError", PyNone, r.err, log, FALSE)
        ELSE IF schema = NoneSchema
        THEN Outcome("SerializationConfigError", PyNone, "schema required", log, FALSE)
        ELSE IF ~Conforms(schema, d)
        THEN Outcome("SerializerError", PyNone, "encoding failed", log, FALSE)
        ELSE Outcome("", PyBytes(frame(r.id, EncodeBody(d))), "", log, FALSE)

\* AvroSerializer._encode(fo, schema, datum, ctx): the bytes written to fo.
\* d is the structural value, cobj the context object.
AvroSerializer_encode(schema, d, cobj, up) ==
    IF schema = NoneSchema
    THEN Outcome("SerializationConfigError", PyNone, "schema required", << >>, FALSE)
    ELSE LET r == register(up, SubjectName(cobj), schema)
             log == << RegEvent("register", SubjectName(cobj), schema, r.id) >>
         IN  IF ~r.ok
             THEN Outcome("SerializerError", PyNone, r.err, log, FALSE)
             ELSE IF ~Conforms(schema, d)
             THEN Outcome("SerializerError", PyNone, "encoding failed", log, FALSE)
             ELSE Outcome("", PyBytes(frame(r.id, EncodeBody(d))), "", log, FALSE)

\* AvroSerializer.deserialize(data, ctx)
AvroSerializer_deserialize(d, up) ==
    IF d = PyNone
    THEN Outcome("", PyNone, "", << >>, FALSE)
    ELSE IF ~unframe_ok(d.b)
    THEN Outcome("MalformedPayloadError", PyNone, "malformed wire payload", << >>, FALSE)
    ELSE LET u == unframe(d.b)
             r == get_by_id(up, u.id)
             log == << RegEvent("get_by_id", "", NoneSchema, u.id) >>
         IN  IF ~r.ok
             THEN Outcome("SerializerError", PyNone, r.err, log, FALSE)
             ELSE IF ~DecodableBody(SchemaOfId(u.id), u.body)
             THEN Outcome("SerializerError", PyNone, "decoding failed", log, FALSE)
             ELSE Outcome("", PyObj(DecodeBody(SchemaOfId(u.id), u.body)), "",
                          log, FALSE)

-----------------------------------------------------------------------------
(* _AvroProducerSerializer.serialize(self, schema, datum, ctx)             *)
(* self = [schema, converter]; cobj is the context object's current state. *)

\* serialize without the "datum is None" test of lines 62-63
AvroProducerSerializer_serialize_no_none_test(self, schema, datum, cobj, up) ==
    LET s == IF schema = NoneSchema THEN self.schema ELSE schema
        d == IF self.converter THEN ToDict(datum.v) ELSE datum.v
        r == AvroSerializer_encode(s, d, cobj, up)
    IN  [r EXCEPT !.converted = self.converter]

\* serialize preferring the bound schema to the override
AvroProducerSerializer_serialize_default_first(self, schema, datum, cobj, up) ==
    IF datum = PyNone
    THEN Outcome("", PyNone, "", << >>, FALSE)
    ELSE LET s == IF self.schema # NoneSchema THEN self.schema ELSE schema
             d == IF self.converter THEN ToDict(datum.v) ELSE datum.v
             r == AvroSerializer_encode(s, d, cobj, up)
         IN  [r EXCEPT !.converted = self.converter]

AvroProducerSerializer_serialize(self, schema, datum, cobj, up) ==
    IF datum = PyNone
    THEN Outcome("", PyNone, "", << >>, FALSE)
    ELSE LET s == IF schema = NoneSchema THEN self.schema ELSE schema
             d == IF self.converter THEN ToDict(datum.v) ELSE datum.v
             r == AvroSerializer_encode(s, d, cobj, up)
         IN  [r EXCEPT !.converted = self.converter]

-----------------------------------------------------------------------------
(* Call-local state                                                        *)

AbsentValue == [t |-> "absent", b |-> << >>, v |-> ""]
AbsentSchema == "absent"
AbsentPartition == -1

NoKwargs == [key |-> AbsentValue, value |-> AbsentValue,
             key_schema |-> AbsentSchema, value_schema |-> AbsentSchema,
             partition |-> AbsentPartition]

\* keyword arguments a caller may pass to produce
KwargsSet ==
    [key : {AbsentValue, PyNone, PyObj("a"), PyObj("b")},
     value : {AbsentValue, PyNone, PyObj("a"), PyObj("b")},
     key_schema : {AbsentSchema, NoneSchema, "S1"},
     value_schema : {AbsentSchema, "S1", "S2"},
     partition : {AbsentPartition, 0}]

\* dict.pop(name, None)
PopValue(kw, name) == IF kw[name] = AbsentValue THEN PyNone ELSE kw[name]
PopSchema(kw, name) == IF kw[name] = AbsentSchema THEN NoneSchema ELSE kw[name]

NoMessage == [present |-> FALSE, error |-> FALSE, topic |-> "", partition |-> -1,
              offset |-> -1, key |-> PyNone, value |-> PyNone]

\* wire payloads a polled record may carry
Payloads ==
    {PyNone,
     PyBytes(frame(1, << 2 >>)),        \* S1-framed "a"
     PyBytes(<< >>),                    \* empty
     PyBytes(<< 0, 0 >>),               \* shorter than the header
     PyBytes(<< 0, 0, 0, 1 >>),         \* one byte short of the header
     PyBytes(<< 1, 0, 0, 0, 1, 2 >>),   \* wrong magic byte
     PyBytes(frame(9, << 2 >>)),        \* id unknown to the registry
     PyBytes(frame(258, << 2 >>))}      \* body not decodable under S2

PolledMessages ==
    [present : {TRUE}, error : BOOLEAN, topic : Topics,
     partition : 0..MaxPartition, offset : 0..MaxOffset,
     key : Payloads, value : Payloads]

\* no frame / unframe call made
NoWire == [framed |-> FALSE, id |-> 0, body |-> << >>, bytes |-> << >>,
           ok |-> FALSE, kind |-> "", out |-> << >>]

Threads == 1..NThreads

\* a thread that has not called get_by_id
NoCall == [pc |-> "idle", id |-> 0, hit |-> FALSE, schema |-> NoneSchema]

NoSer == [self |-> [schema |-> NoneSchema, converter |-> FALSE],
          schema |-> NoneSchema, datum |-> PyNone,
          out |-> PyNone, kind |-> "", err |-> "", converted |-> FALSE]

\* A serializer / deserializer / transport call: the arguments it was given
\* (ctx = 0 stands for ctx=None; topic and field are what the context object
\* read when the call was made) and its outcome r.
Event(op, part, ref, h, schema, datum, r) ==
    [op |-> op, part |-> part, ctx |-> ref,
     topic |-> IF ref = 0 THEN "" ELSE h[ref].topic,
     field |-> IF ref = 0 THEN "" ELSE h[ref].field,
     schema |-> schema, datum |-> datum,
     ok |-> r.ok, kind |-> r.kind, err |-> r.err, out |-> r.out]

\* outcome of a transport call that returned
TransportOk == Outcome("", PyNone, "", << >>, FALSE)

\* SerializationContext(topic, field)
SerializationContext(t, f) == [topic |-> t, field |-> f]

Init ==
    /\ pc = "idle"
    /\ producer \in [key_serializer : [schema : {NoneSchema, "S1"}, converter : {FALSE}],
                     value_serializer : [schema : {NoneSchema, "S1"}, converter : {FALSE}]]
    /\ regUp = TRUE
    /\ topic = ""
    /\ passed = NoKwargs
    /\ kwargs = NoKwargs
    /\ key = PyNone
    /\ value = PyNone
    /\ key_schema = NoneSchema
    /\ value_schema = NoneSchema
    /\ ctx = 0
    /\ heap = << >>
    /\ events = << >>
    /\ regLog = << >>
    /\ sent = << >>
    /\ raised = NoError
    /\ polled = NoMessage
    /\ message = NoMessage
    /\ ret = ""
    /\ ser = NoSer
    /\ py = 0
    /\ codec = NoCodec
    /\ data = PyNone
    /\ result = NoResult
    /\ input = NoneValue
    /\ packed = NoResult
    /\ wire = NoWire
    /\ id_to_schema = [i \in KnownIds |-> NoneSchema]
    /\ threads = [t \in Threads |-> NoCall]

-----------------------------------------------------------------------------
(* AvroProducer.produce(topic, **kwargs)                                   *)

\* lines 213-219: pop the four wrapper arguments, construct the context
produce_begin ==
    /\ pc = "idle"
    /\ \E t \in Topics, kw \in KwargsSet, up \in BOOLEAN :
          /\ topic' = t
          /\ passed' = kw
          /\ regUp' = up
          /\ key' = PopValue(kw, "key")
          /\ value' = PopValue(kw, "value")
          /\ key_schema' = PopSchema(kw, "key_schema")
          /\ value_schema' = PopSchema(kw, "value_schema")
          /\ kwargs' = [kw EXCEPT !.key = AbsentValue, !.value = AbsentValue,
                                  !.key_schema = AbsentSchema,
                                  !.value_schema = AbsentSchema]
          /\ heap' = << SerializationContext(t, "KEY") >>
          /\ ctx' = 1
    /\ pc' = "produce_key"
    /\ UNCHANGED << producer, events, regLog, sent, raised,
                    polled, message, ret, ser, codecVars, wireVars, registryVars >>

\* produce_key with the key failure swallowed instead of raised
produce_key_swallow ==
    /\ pc = "produce_key"
    /\ LET r == AvroProducerSerializer_serialize(producer.key_serializer,
                    key_schema, key, heap[ctx], regUp)
       IN  /\ events' = Append(events, Event("serialize", "key", ctx, heap, key_schema, key, r))
           /\ regLog' = regLog \o r.log
           /\ key' = r.out
           /\ pc' = "produce_field"
           /\ UNCHANGED raised
    /\ UNCHANGED << producer, regUp, topic, passed, kwargs, value, key_schema,
                    value_schema, ctx, heap, sent, polled, message, ret, ser, codecVars, wireVars, registryVars >>

\* lines 220-223
produce_key ==
    /\ pc = "produce_key"
    /\ LET r == AvroProducerSerializer_serialize(producer.key_serializer,
                    key_schema, key, heap[ctx], regUp)
       IN  /\ events' = Append(events, Event("serialize", "key", ctx, heap, key_schema, key, r))
           /\ regLog' = regLog \o r.log
           /\ IF r.ok
              THEN /\ key' = r.out
                   /\ pc' = "produce_field"
                   /\ UNCHANGED raised
              ELSE /\ raised' = IF r.kind \in SerializerErrorKinds
                                THEN Error("KeySerializerError", r.err)
                                ELSE Error(r.kind, r.err)
                   /\ pc' = "produce_done"
                   /\ UNCHANGED key
    /\ UNCHANGED << producer, regUp, topic, passed, kwargs, value, key_schema,
                    value_schema, ctx, heap, sent, polled, message, ret, ser, codecVars, wireVars, registryVars >>

\* line 225: ctx.field = MessageField.VALUE
produce_field ==
    /\ pc = "produce_field"
    /\ heap' = [heap EXCEPT ![ctx].field = "VALUE"]
    /\ pc' = "produce_value"
    /\ UNCHANGED << producer, regUp, topic, passed, kwargs, key, value,
                    key_schema, value_schema, ctx, events, regLog, sent, raised,
                    polled, message, ret, ser, codecVars, wireVars, registryVars >>

\* produce_value with the except clause of the key copied unchanged
produce_value_key_error ==
    /\ pc = "produce_value"
    /\ LET r == AvroProducerSerializer_serialize(producer.value_serializer,
                    value_schema, value, heap[ctx], regUp)
       IN  /\ events' = Append(events, Event("serialize", "value", ctx, heap, value_schema, value, r))
           /\ regLog' = regLog \o r.log
           /\ IF r.ok
              THEN /\ value' = r.out
                   /\ pc' = "produce_send"
                   /\ UNCHANGED raised
              ELSE /\ raised' = Error("KeySerializerError", r.err)
                   /\ pc' = "produce_done"
                   /\ UNCHANGED value
    /\ UNCHANGED << producer, regUp, topic, passed, kwargs, key, key_schema,
                    value_schema, ctx, heap, sent, polled, message, ret, ser, codecVars, wireVars, registryVars >>

\* lines 226-229
produce_value ==
    /\ pc = "produce_value"
    /\ LET r == AvroProducerSerializer_serialize(producer.value_serializer,
                    value_schema, value, heap[ctx], regUp)
       IN  /\ events' = Append(events, Event("serialize", "value", ctx, heap, value_schema, value, r))
           /\ regLog' = regLog \o r.log
           /\ IF r.ok
              THEN /\ value' = r.out
                   /\ pc' = "produce_send"
                   /\ UNCHANGED raised
              ELSE /\ raised' = IF r.kind \in SerializerErrorKinds
                                THEN Error("ValueSerializerError", r.err)
                                ELSE Error(r.kind, r.err)
                   /\ pc' = "produce_done"
                   /\ UNCHANGED value
    /\ UNCHANGED << producer, regUp, topic, passed, kwargs, key, key_schema,
                    value_schema, ctx, heap, sent, polled, message, ret, ser, codecVars, wireVars, registryVars >>

\* produce_send with the two positional payloads in the wrong order
produce_send_swapped ==
    /\ pc = "produce_send"
    /\ sent' = Append(sent, [topic |-> topic, value |-> key, key |-> value,
                             kwargs |-> kwargs])
    /\ events' = Append(events, Event("produce", "transport", 0, heap, NoneSchema, PyNone, TransportOk))
    /\ pc' = "produce_done"
    /\ UNCHANGED << producer, regUp, topic, passed, kwargs, key, value,
                    key_schema, value_schema, ctx, heap, regLog, raised,
                    polled, message, ret, ser, codecVars, wireVars, registryVars >>

\* line 231: super().produce(topic, value, key, **kwargs)
produce_send ==
    /\ pc = "produce_send"
    /\ sent' = Append(sent, [topic |-> topic, value |-> value, key |-> key,
                             kwargs |-> kwargs])
    /\ events' = Append(events, Event("produce", "transport", 0, heap, NoneSchema, PyNone, TransportOk))
    /\ pc' = "produce_done"
    /\ UNCHANGED << producer, regUp, topic, passed, kwargs, key, value,
                    key_schema, value_schema, ctx, heap, regLog, raised,
                    polled, message, ret, ser, codecVars, wireVars, registryVars >>

-----------------------------------------------------------------------------
(* AvroConsumer.poll(timeout)                                              *)

\* PollError with the partition formatted in the place of the offset
PollError_wrong_offset(m, cause) ==
    [kind |-> "SerializerError",
     fmt |-> "Message deserialization failed for message at {} [{}] offset {}: {}",
     topic |-> m.topic, partition |-> m.partition, offset |-> m.partition,
     cause |-> cause]

\* the SerializerError raised at lines 147-150
PollError(m, cause) ==
    [kind |-> "SerializerError",
     fmt |-> "Message deserialization failed for message at {} [{}] offset {}: {}",
     topic |-> m.topic, partition |-> m.partition, offset |-> m.offset,
     cause |-> cause]

\* poll_begin without the error() test
poll_begin_no_error_test ==
    /\ pc = "idle"
    /\ \E m \in PolledMessages \cup {NoMessage}, up \in BOOLEAN :
          /\ polled' = m
          /\ message' = m
          /\ regUp' = up
          /\ IF ~m.present
             THEN pc' = "poll_done" /\ ret' = "None"
             ELSE pc' = "poll_value" /\ ret' = ""
    /\ events' = << Event("poll", "transport", 0, heap, NoneSchema, PyNone, TransportOk) >>
    /\ UNCHANGED << producer, topic, passed, kwargs, key, value,
                    key_schema, value_schema, ctx, heap, regLog, sent, raised,
                    ser, codecVars, wireVars, registryVars >>

\* lines 138-142: the transport poll, the None and the error() tests
poll_begin ==
    /\ pc = "idle"
    /\ \E m \in PolledMessages \cup {NoMessage}, up \in BOOLEAN :
          /\ polled' = m
          /\ message' = m
          /\ regUp' = up
          /\ IF ~m.present
             THEN pc' = "poll_done" /\ ret' = "None"
             ELSE IF m.error
             THEN pc' = "poll_done" /\ ret' = "message"
             ELSE pc' = "poll_value" /\ ret' = ""
    /\ events' = << Event("poll", "transport", 0, heap, NoneSchema, PyNone, TransportOk) >>
    /\ UNCHANGED << producer, topic, passed, kwargs, key, value,
                    key_schema, value_schema, ctx, heap, regLog, sent, raised,
                    ser, codecVars, wireVars, registryVars >>

\* poll going on to the key after a value failure
poll_value_swallow ==
    /\ pc = "poll_value"
    /\ LET r == AvroSerializer_deserialize(message.value, regUp)
       IN  /\ events' = Append(events, Event("deserialize", "value", 0, heap, NoneSchema, message.value, r))
           /\ regLog' = regLog \o r.log
           /\ message' = IF r.ok THEN [message EXCEPT !.value = r.out] ELSE message
           /\ pc' = "poll_key"
           /\ UNCHANGED raised
    /\ UNCHANGED << producer, regUp, topic, passed, kwargs, key, value, key_schema,
                    value_schema, ctx, heap, sent, polled, ret, ser, codecVars, wireVars, registryVars >>

\* line 144 (and 146-150 when it raises)
poll_value ==
    /\ pc = "poll_value"
    /\ LET r == AvroSerializer_deserialize(message.value, regUp)
       IN  /\ events' = Append(events, Event("deserialize", "value", 0, heap, NoneSchema, message.value, r))
           /\ regLog' = regLog \o r.log
           /\ IF r.ok
              THEN /\ message' = [message EXCEPT !.value = r.out]
                   /\ pc' = "poll_key"
                   /\ UNCHANGED raised
              ELSE /\ raised' = IF r.kind \in SerializerErrorKinds
                                THEN PollError(message, r.err)
                                ELSE Error(r.kind, r.err)
                   /\ pc' = "poll_done"
                   /\ UNCHANGED message
    /\ UNCHANGED << producer, regUp, topic, passed, kwargs, key, value, key_schema,
                    value_schema, ctx, heap, sent, polled, ret, ser, codecVars, wireVars, registryVars >>

\* line 145 (and 146-150 when it raises), then line 151
poll_key ==
    /\ pc = "poll_key"
    /\ LET r == AvroSerializer_deserialize(message.key, regUp)
       IN  /\ events' = Append(events, Event("deserialize", "key", 0, heap, NoneSchema, message.key, r))
           /\ regLog' = regLog \o r.log
           /\ IF r.ok
              THEN /\ message' = [message EXCEPT !.key = r.out]
                   /\ ret' = "message"
                   /\ UNCHANGED raised
              ELSE /\ raised' = IF r.kind \in SerializerErrorKinds
                                THEN PollError(message, r.err)
                                ELSE Error(r.kind, r.err)
                   /\ UNCHANGED << message, ret >>
           /\ pc' = "poll_done"
    /\ UNCHANGED << producer, regUp, topic, passed, kwargs, key, value, key_schema,
                    value_schema, ctx, heap, sent, polled, ser, codecVars, wireVars, registryVars >>

-----------------------------------------------------------------------------
(* A direct call of _AvroProducerSerializer.serialize on an instance with  *)
(* any bound schema and converter.                                         *)

serialize_call ==
    /\ pc = "idle"
    /\ \E self \in [schema : {NoneSchema} \cup Schemas, converter : BOOLEAN],
          schema \in {NoneSchema} \cup Schemas,
          datum \in {PyNone} \cup {PyObj(d) : d \in Datums},
          t \in Topics, f \in {"KEY", "VALUE"}, up \in BOOLEAN :
          LET r == AvroProducerSerializer_serialize(self, schema, datum,
                       SerializationContext(t, f), up)
          IN  /\ ser' = [self |-> self, schema |-> schema, datum |-> datum,
                         out |-> r.out, kind |-> r.kind, err |-> r.err,
                         converted |-> r.converted]
              /\ heap' = << SerializationContext(t, f) >>
              /\ regUp' = up
              /\ regLog' = r.log
    /\ pc' = "serialize_done"
    /\ UNCHANGED << producer, topic, passed, kwargs, key, value, key_schema,
                    value_schema, ctx, events, sent, raised, polled, message, ret,
                    codecVars, wireVars, registryVars >>

-----------------------------------------------------------------------------
(* Primitive serializers (serialization/serializers.py): deserialize.      *)

RECURSIVE Pow2(_)
Pow2(n) == IF n = 0 THEN 1 ELSE 2 * Pow2(n - 1)

\* the 52-bit fraction of a double whose top 23 bits are m and the rest 0
Frac52(m) == << m \div 524288, (m \div 8) % 65536, (m % 8) * 8192, 0 >>

\* the double equal to the IEEE 754 single << sign, exponent, fraction >>
\* (what unpack returns for 'f', a Python float being a C double)
ToDouble(f) ==
    IF f[2] = 255 THEN << f[1], 2047 >> \o Frac52(f[3])
    ELSE IF f[2] > 0 THEN << f[1], f[2] + 896 >> \o Frac52(f[3])
    ELSE IF f[3] = 0 THEN << f[1], 0, 0, 0, 0, 0 >>
    ELSE LET top == CHOOSE k \in 0..22 : Pow2(k) <= f[3] /\ f[3] < Pow2(k + 1)
         IN  << f[1], top + 874 >> \o Frac52((f[3] - Pow2(top)) * Pow2(23 - top))

\* the IEEE 754 single nearest to the double v, ties to even (what pack does
\* for 'f' with the C conversion (float)x); exponent 255 with fraction 0 is
\* an infinity, a NaN stays a NaN with the quiet bit set
ToSingle(v) ==
    LET m == v[3] * 524288 + v[4] * 8 + v[5] \div 8192
        low == v[5] % 8192
        sticky == low # 0 \/ v[6] # 0
        above == low > 4096 \/ (low = 4096 /\ v[6] # 0)
        tie == low = 4096 /\ v[6] = 0
        e == v[2] - 896
    IN  IF v[2] = 2047
        THEN IF m = 0 /\ ~sticky THEN << v[1], 255, 0 >>
             ELSE << v[1], 255, IF m >= 4194304 THEN m ELSE m + 4194304 >>
        ELSE IF v[2] = 0 \/ e < -24 THEN << v[1], 0, 0 >>
        ELSE IF e >= 255 THEN << v[1], 255, 0 >>
        ELSE IF e >= 1
        THEN LET r == IF above \/ (tie /\ m % 2 = 1) THEN m + 1 ELSE m
             IN  IF r < 8388608 THEN << v[1], e, r >>
                 ELSE IF e + 1 >= 255 THEN << v[1], 255, 0 >>
                 ELSE << v[1], e + 1, 0 >>
        ELSE LET k == 1 - e
                 sig == 8388608 + m
                 q == sig \div Pow2(k)
                 r == sig % Pow2(k)
                 up == \/ r > Pow2(k - 1)
                       \/ (r = Pow2(k - 1) /\ (sticky \/ q % 2 = 1))
                 n == IF up THEN q + 1 ELSE q
             IN  IF n = 8388608 THEN << v[1], 1, 0 >> ELSE << v[1], 0, n >>

\* struct.calcsize of the format characters used
calcsize(fmt) ==
    CASE fmt = "d" -> 8
      [] fmt = "f" -> 4
      [] fmt = "q" -> 8
      [] fmt = "i" -> 4
      [] fmt = "h" -> 2

\* struct.unpack('>' + fmt, b)[0] for Len(b) = calcsize(fmt).  A long is the
\* integer l1 * 2^48 + l2 * 2^32 + l3 * 2^16 + l4, given as << l1, l2, l3, l4 >>;
\* a float is the double it denotes, given as sign, biased exponent and
\* fraction in limbs of 4, 16, 16 and 16 bits.
unpack_value(fmt, b) ==
    CASE fmt = "h" -> << UnpackSigned(b) >>
      [] fmt = "i" -> << UnpackSigned(b) >>
      [] fmt = "q" -> << UnpackSigned(SubSeq(b, 1, 2)), UnsignedBE(SubSeq(b, 3, 4)),
                         UnsignedBE(SubSeq(b, 5, 6)), UnsignedBE(SubSeq(b, 7, 8)) >>
      [] fmt = "f" -> ToDouble(<< b[1] \div 128, (b[1] % 128) * 2 + b[2] \div 128,
                                  (b[2] % 128) * 65536 + b[3] * 256 + b[4] >>)
      [] fmt = "d" -> << b[1] \div 128, (b[1] % 128) * 16 + b[2] \div 16,
                         b[2] % 16, UnsignedBE(SubSeq(b, 3, 4)),
                         UnsignedBE(SubSeq(b, 5, 6)), UnsignedBE(SubSeq(b, 7, 8)) >>

\* struct.unpack: struct.error unless the buffer has exactly the format's size
unpack(fmt, b) ==
    IF Len(b) = calcsize(fmt)
    THEN Returned(unpack_value(fmt, b))
    ELSE Raised("struct.error", "unpack requires a buffer of the format's size")

IsCont(x) == x >= 128 /\ x <= 191

\* bytes.decode('utf_8') on interpreter p: the code points, or
\* UnicodeDecodeError; Python 2 accepts the encoding of a surrogate
RECURSIVE utf_8_decode(_, _)
utf_8_decode(b, p) ==
    IF Len(b) = 0 THEN Returned(<< >>)
    ELSE LET n == IF b[1] < 128 THEN 1
                  ELSE IF b[1] >= 194 /\ b[1] <= 223 THEN 2
                  ELSE IF b[1] >= 224 /\ b[1] <= 239 THEN 3
                  ELSE IF b[1] >= 240 /\ b[1] <= 244 THEN 4
                  ELSE 0
             wellFormed ==
                 /\ n > 0
                 /\ Len(b) >= n
                 /\ \A i \in 2..n : IsCont(b[i])
                 /\ (b[1] = 224 => b[2] >= 160)
                 /\ (b[1] = 237 /\ p = 3 => b[2] <= 159)
                 /\ (b[1] = 240 => b[2] >= 144)
                 /\ (b[1] = 244 => b[2] <= 143)
         IN  IF ~wellFormed
             THEN Raised("UnicodeDecodeError", "invalid byte sequence")
             ELSE LET cp == CASE n = 1 -> b[1]
                              [] n = 2 -> (b[1] - 192) * 64 + (b[2] - 128)
                              [] n = 3 -> (b[1] - 224) * 4096 + (b[2] - 128) * 64
                                          + (b[3] - 128)
                              [] n = 4 -> (b[1] - 240) * 262144 + (b[2] - 128) * 4096
                                          + (b[3] - 128) * 64 + (b[4] - 128)
                      rest == utf_8_decode(SubSeq(b, n + 1, Len(b)), p)
                  IN  IF rest.kind = "ok"
                      THEN Returned(<< cp >> \o rest.value)
                      ELSE rest

\* bytes.decode('ascii')
ascii_decode(b) ==
    IF \A i \in 1..Len(b) : b[i] < 128
    THEN Returned(b)
    ELSE Raised("UnicodeDecodeError", "ordinal not in range(128)")

\* bytes.decode(codec)
decode(b, encoding, p) ==
    IF encoding = "ascii" THEN ascii_decode(b) ELSE utf_8_decode(b, p)

\* "except struct.error as e: raise SerializerError(e)"
RaiseSerializerError_e(r) ==
    IF r.kind = "struct.error" THEN Raised("SerializerError", r.kind) ELSE r

\* "except struct.error as e: raise SerializerError(e.message)": BaseException
\* has the attribute message on Python 2 only
RaiseSerializerError_e_message(r, p) ==
    IF r.kind = "struct.error"
    THEN IF p = 2 THEN Raised("SerializerError", r.kind)
         ELSE Raised("AttributeError", "'struct.error' object has no attribute 'message'")
    ELSE r

DoubleSerializer_deserialize(d, p) ==
    IF d = PyNone THEN ReturnedNone
    ELSE RaiseSerializerError_e(unpack("d", d.b))

FloatSerializer_deserialize(d, p) ==
    IF d = PyNone THEN ReturnedNone
    ELSE RaiseSerializerError_e(unpack("f", d.b))

LongSerializer_deserialize(d, p) ==
    IF d = PyNone THEN ReturnedNone
    ELSE RaiseSerializerError_e(unpack("q", d.b))

IntegerSerializer_deserialize(d, p) ==
    IF d = PyNone THEN ReturnedNone
    ELSE RaiseSerializerError_e_message(unpack("i", d.b), p)

ShortSerializer_deserialize(d, p) ==
    IF d = PyNone THEN ReturnedNone
    ELSE RaiseSerializerError_e(unpack("h", d.b))

\* self is the serializer's codec attribute
StringSerializer_deserialize(self, d, p) ==
    IF d = PyNone THEN ReturnedNone
    ELSE RaiseSerializerError_e_message(decode(d.b, self, p), p)

-----------------------------------------------------------------------------
(* Primitive serializers (serialization/serializers.py): serialize.        *)

\* the limbs of a Python integer
Limbs(v) ==
    IF Len(v) = 4 THEN v
    ELSE << IF v[1] < 0 THEN -1 ELSE 0, IF v[1] < 0 THEN 65535 ELSE 0,
            (v[1] \div 65536) % 65536, v[1] % 65536 >>

\* the integer with limbs l fits the signed type of format fmt
InRange(fmt, l) ==
    CASE fmt = "h" -> \/ l[1] = 0 /\ l[2] = 0 /\ l[3] = 0 /\ l[4] < 32768
                      \/ l[1] = -1 /\ l[2] = 65535 /\ l[3] = 65535 /\ l[4] >= 32768
      [] fmt = "i" -> \/ l[1] = 0 /\ l[2] = 0 /\ l[3] < 32768
                      \/ l[1] = -1 /\ l[2] = 65535 /\ l[3] >= 32768
      [] fmt = "q" -> l[1] >= -32768 /\ l[1] <= 32767

\* struct.pack('>' + fmt, v) for an integer v and fmt in h, i, q
pack_integer(fmt, v) ==
    LET l == Limbs(v)
        all == PackSigned(l[1], 2) \o BytesBE(l[2], 2) \o BytesBE(l[3], 2)
               \o BytesBE(l[4], 2)
    IN  IF InRange(fmt, l)
        THEN Returned(SubSeq(all, 9 - calcsize(fmt), 8))
        ELSE Raised("struct.error", "argument out of range")

\* struct.pack('>d', v) for a float v
pack_double(v) ==
    Returned(<< v[1] * 128 + v[2] \div 16, (v[2] % 16) * 16 + v[3] >>
             \o BytesBE(v[4], 2) \o BytesBE(v[5], 2) \o BytesBE(v[6], 2))

\* struct.pack('>f', v) for a float v: OverflowError when a finite v becomes
\* an infinity
pack_float(v) ==
    LET f == ToSingle(v)
    IN  IF f[2] = 255 /\ v[2] # 2047
        THEN Raised("OverflowError", "float too large to pack with f format")
        ELSE Returned(<< f[1] * 128 + f[2] \div 2, (f[2] % 2) * 128 + f[3] \div 65536 >>
                      \o BytesBE(f[3] % 65536, 2))

pack(fmt, v) ==
    CASE fmt = "d" -> pack_double(v)
      [] fmt = "f" -> pack_float(v)
      [] OTHER -> pack_integer(fmt, v)

\* str.encode('utf_8') on interpreter p: Python 3 refuses a surrogate
RECURSIVE utf_8_encode(_, _)
utf_8_encode(t, p) ==
    IF Len(t) = 0 THEN Returned(<< >>)
    ELSE LET c == t[1]
             head == IF c < 128 THEN << c >>
                     ELSE IF c < 2048 THEN << 192 + c \div 64, 128 + (c % 64) >>
                     ELSE IF c < 65536
                     THEN << 224 + c \div 4096, 128 + ((c \div 64) % 64), 128 + (c % 64) >>
                     ELSE << 240 + c \div 262144, 128 + ((c \div 4096) % 64),
                             128 + ((c \div 64) % 64), 128 + (c % 64) >>
             rest == utf_8_encode(Tail(t), p)
         IN  IF p = 3 /\ c >= 55296 /\ c <= 57343
             THEN Raised("UnicodeEncodeError", "surrogates not allowed")
             ELSE IF rest.kind = "ok" THEN Returned(head \o rest.value)
             ELSE rest

\* str.encode('ascii')
ascii_encode(t) ==
    IF \A i \in 1..Len(t) : t[i] < 128
    THEN Returned(t)
    ELSE Raised("UnicodeEncodeError", "ordinal not in range(128)")

\* str.encode(codec)
encode(t, encoding, p) ==
    IF encoding = "ascii" THEN ascii_encode(t) ELSE utf_8_encode(t, p)

\* serialize handing None to struct.pack
DoubleSerializer_serialize_no_none_test(d, p) ==
    RaiseSerializerError_e(IF d.none
                           THEN Raised("struct.error", "required argument is not a float")
                           ELSE pack("d", d.v))

DoubleSerializer_serialize(d, p) ==
    IF d.none THEN ReturnedNone
    ELSE RaiseSerializerError_e(pack("d", d.v))

FloatSerializer_serialize(d, p) ==
    IF d.none THEN ReturnedNone
    ELSE RaiseSerializerError_e(pack("f", d.v))

LongSerializer_serialize(d, p) ==
    IF d.none THEN ReturnedNone
    ELSE RaiseSerializerError_e(pack("q", d.v))

\* serialize packing with '<i'
IntegerSerializer_serialize_little_endian(d, p) ==
    IF d.none THEN ReturnedNone
    ELSE LET r == pack("i", d.v)
         IN  RaiseSerializerError_e_message(
                 IF r.kind = "ok" THEN Returned([i \in 1..4 |-> r.value[5 - i]])
                 ELSE r, p)

IntegerSerializer_serialize(d, p) ==
    IF d.none THEN ReturnedNone
    ELSE RaiseSerializerError_e_message(pack("i", d.v), p)

\* serialize packing with '>i'
ShortSerializer_serialize_int_format(d, p) ==
    IF d.none THEN ReturnedNone
    ELSE RaiseSerializerError_e_message(pack("i", d.v), p)

ShortSerializer_serialize(d, p) ==
    IF d.none THEN ReturnedNone
    ELSE RaiseSerializerError_e_message(pack("h", d.v), p)

\* self is the serializer's codec attribute
StringSerializer_serialize(self, d, p) ==
    IF d.none THEN ReturnedNone
    ELSE RaiseSerializerError_e_message(encode(d.v, self, p), p)

\* the serializer instances: class and, for StringSerializer, codec
Codecs ==
    {[class |-> c, codec |-> ""] : c \in {"DoubleSerializer", "FloatSerializer",
        "LongSerializer", "IntegerSerializer", "ShortSerializer"}}
    \cup {[class |-> "StringSerializer", codec |-> e] : e \in {"utf_8", "ascii"}}

deserialize(c, d, p) ==
    CASE c.class = "DoubleSerializer" -> DoubleSerializer_deserialize(d, p)
      [] c.class = "FloatSerializer" -> FloatSerializer_deserialize(d, p)
      [] c.class = "LongSerializer" -> LongSerializer_deserialize(d, p)
      [] c.class = "IntegerSerializer" -> IntegerSerializer_deserialize(d, p)
      [] c.class = "ShortSerializer" -> ShortSerializer_deserialize(d, p)
      [] c.class = "StringSerializer" -> StringSerializer_deserialize(c.codec, d, p)

serialize(c, d, p) ==
    CASE c.class = "DoubleSerializer" -> DoubleSerializer_serialize(d, p)
      [] c.class = "FloatSerializer" -> FloatSerializer_serialize(d, p)
      [] c.class = "LongSerializer" -> LongSerializer_serialize(d, p)
      [] c.class = "IntegerSerializer" -> IntegerSerializer_serialize(d, p)
      [] c.class = "ShortSerializer" -> ShortSerializer_serialize(d, p)
      [] c.class = "StringSerializer" -> StringSerializer_serialize(c.codec, d, p)

\* integers handed to serialize: the ends of the three ranges, their
\* neighbours outside, and values between
Integers ==
    {<< 0 >>, << 1 >>, << -1 >>, << 258 >>, << 32767 >>, << -32768 >>,
     << 32768 >>, << -32769 >>, << 2147483647 >>, << -2147483647 - 1 >>,
     << 0, 0, 32768, 0 >>, << -1, 65535, 32767, 65535 >>,
     << 0, 0, 0, 5 >>, << 0, 1, 0, 0 >>, << 18, 13398, 30875, 52719 >>,
     << 32767, 65535, 65535, 65535 >>, << -32768, 0, 0, 0 >>,
     << 32768, 0, 0, 0 >>, << -32769, 65535, 65535, 65535 >>}

\* floats handed to serialize: 1.0, -2.5, 0.1, both zeros, the infinities, a
\* NaN, the largest single, the double half a step above it, 1e39, 1 + 2^-24,
\* 1 + 2^-23 + 2^-24, 2^-126, 2^-149, 3 * 2^-149, 2^-150 and the smallest
\* subnormal double
Floats ==
    {<< 0, 1023, 0, 0, 0, 0 >>, << 1, 1024, 4, 0, 0, 0 >>,
     << 0, 1019, 9, 39321, 39321, 39322 >>,
     << 0, 0, 0, 0, 0, 0 >>, << 1, 0, 0, 0, 0, 0 >>,
     << 0, 2047, 0, 0, 0, 0 >>, << 1, 2047, 0, 0, 0, 0 >>,
     << 0, 2047, 8, 0, 0, 0 >>,
     << 0, 1150, 15, 65535, 57344, 0 >>, << 0, 1150, 15, 65535, 61440, 0 >>,
     << 0, 1153, 2, 52947, 10774, 41393 >>,
     << 0, 1023, 0, 0, 4096, 0 >>, << 0, 1023, 0, 0, 12288, 0 >>,
     << 0, 897, 0, 0, 0, 0 >>, << 0, 874, 0, 0, 0, 0 >>,
     << 0, 875, 8, 0, 0, 0 >>, << 0, 873, 0, 0, 0, 0 >>,
     << 0, 0, 0, 0, 0, 1 >>}

\* text handed to serialize, as code points: "", "hi", U+00E9, U+20AC,
\* U+1F600, "a" U+00E9 and the lone surrogate U+D800
Texts ==
    {<< >>, << 104, 105 >>, << 233 >>, << 8364 >>, << 128512 >>,
     << 97, 233 >>, << 55296 >>}

\* the values a caller hands to the serialize of class c
ValuesOf(c) ==
    CASE c.class \in {"DoubleSerializer", "FloatSerializer"} -> Floats
      [] c.class = "StringSerializer" -> Texts
      [] OTHER -> Integers

\* X.serialize(datum, ctx) on interpreter major version p
codec_serialize_call ==
    /\ pc = "idle"
    /\ \E c \in Codecs, p \in {2, 3} :
          \E d \in {NoneValue} \cup {Value(v) : v \in ValuesOf(c)} :
              /\ codec' = c
              /\ py' = p
              /\ input' = d
              /\ packed' = serialize(c, d, p)
    /\ pc' = "packed"
    /\ UNCHANGED << data, result >>
    /\ UNCHANGED << wrapperVarsButPc, wireVars, registryVars >>

\* X.deserialize(X.serialize(datum, ctx), ctx): the caller hands what
\* serialize returned to deserialize of the same instance
codec_roundtrip ==
    /\ pc = "packed"
    /\ packed.kind \in {"ok", "None"}
    /\ data' = IF packed.kind = "None" THEN PyNone ELSE PyBytes(packed.value)
    /\ result' = deserialize(codec, data', py)
    /\ pc' = "deserialize_done"
    /\ UNCHANGED << codec, py, input, packed >>
    /\ UNCHANGED << wrapperVarsButPc, wireVars, registryVars >>

\* byte strings handed to deserialize
CodecInputs ==
    {<< >>, << 0 >>, << 65 >>, << 255 >>,
     << 0, 1 >>, << 255, 254 >>, << 128, 0 >>, << 195, 169 >>, << 195, 40 >>,
     << 0, 0, 1 >>, << 226, 130, 172 >>, << 237, 160, 128 >>,
     << 0, 0, 0, 1 >>, << 255, 255, 255, 255 >>, << 128, 0, 0, 0 >>,
     << 127, 255, 255, 255 >>, << 63, 128, 0, 0 >>, << 240, 159, 152, 128 >>,
     << 0, 0, 0, 0, 1 >>,
     << 0, 0, 0, 0, 0, 0, 1 >>,
     << 0, 0, 0, 0, 0, 0, 0, 1 >>, << 255, 255, 255, 255, 255, 255, 255, 255 >>,
     << 128, 0, 0, 0, 0, 0, 0, 0 >>, << 63, 240, 0, 0, 0, 0, 0, 0 >>,
     << 104, 105, 0, 0, 0, 0, 0, 0 >>,
     << 0, 0, 0, 0, 0, 0, 0, 0, 1 >>}

\* X.deserialize(data, ctx) on interpreter major version p
deserialize_call ==
    /\ pc = "idle"
    /\ \E c \in Codecs, p \in {2, 3},
          d \in {PyNone} \cup {PyBytes(b) : b \in CodecInputs} :
          /\ codec' = c
          /\ py' = p
          /\ data' = d
          /\ result' = deserialize(c, d, p)
    /\ pc' = "deserialize_done"
    /\ UNCHANGED << input, packed >>
    /\ UNCHANGED << wrapperVarsButPc, wireVars, registryVars >>

-----------------------------------------------------------------------------
(* Direct calls of the wire format functions.                              *)

\* schema ids handed to frame: the ends of the signed 32-bit range, the ids
\* around 0 and ids of more than one byte
FrameIds == {-2147483647 - 1, -16777217, -1, 0, 1, 258, 2147483647}

Bodies == {<< >>, << 2 >>, << 0, 255 >>}

\* byte strings handed to unframe: every length from 0 to 4, a wrong first
\* byte at several lengths, and well-formed frames
WireInputs ==
    {<< >>, << 0 >>, << 1 >>, << 0, 0 >>, << 0, 0, 1 >>, << 0, 0, 0, 1 >>,
     << 255, 0, 0, 1 >>, << 1, 0, 0, 0, 1 >>, << 1, 0, 0, 0, 1, 2 >>,
     << 0, 0, 0, 0, 1 >>, << 0, 255, 255, 255, 255, 7 >>}

\* frame(schemaId, body)
frame_call ==
    /\ pc = "idle"
    /\ \E i \in FrameIds, b \in Bodies :
          wire' = [NoWire EXCEPT !.framed = TRUE, !.id = i, !.body = b,
                                 !.bytes = frame(i, b)]
    /\ pc' = "framed"
    /\ UNCHANGED << wrapperVarsButPc, codecVars, registryVars >>

\* unframe(frame(schemaId, body)): what frame returned is handed to unframe
unframe_framed ==
    /\ pc = "framed"
    /\ LET r == try_unframe(wire.bytes)
       IN  wire' = [wire EXCEPT !.ok = r.ok, !.kind = r.kind, !.out = r.out]
    /\ pc' = "unframe_done"
    /\ UNCHANGED << wrapperVarsButPc, codecVars, registryVars >>

\* unframe(bytes)
unframe_call ==
    /\ pc = "idle"
    /\ \E b \in WireInputs :
          LET r == try_unframe(b)
          IN  wire' = [NoWire EXCEPT !.bytes = b, !.ok = r.ok, !.kind = r.kind,
                                     !.out = r.out]
    /\ pc' = "unframe_done"
    /\ UNCHANGED << wrapperVarsButPc, codecVars, registryVars >>

\* the call is over: its locals are dropped
return ==
    /\ pc \in {"produce_done", "poll_done", "serialize_done", "deserialize_done",
              "packed", "framed", "unframe_done"}
    /\ pc' = "idle"
    /\ regUp' = TRUE
    /\ topic' = ""
    /\ passed' = NoKwargs
    /\ kwargs' = NoKwargs
    /\ key' = PyNone
    /\ value' = PyNone
    /\ key_schema' = NoneSchema
    /\ value_schema' = NoneSchema
    /\ ctx' = 0
    /\ heap' = << >>
    /\ events' = << >>
    /\ regLog' = << >>
    /\ sent' = << >>
    /\ raised' = NoError
    /\ polled' = NoMessage
    /\ message' = NoMessage
    /\ ret' = ""
    /\ ser' = NoSer
    /\ codec' = NoCodec
    /\ data' = PyNone
    /\ result' = NoResult
    /\ input' = NoneValue
    /\ packed' = NoResult
    /\ py' = 0
    /\ wire' = NoWire
    /\ UNCHANGED << producer, registryVars >>

Next ==
    \/ produce_begin
    \/ produce_key
    \/ produce_field
    \/ produce_value
    \/ produce_send
    \/ poll_begin
    \/ poll_value
    \/ poll_key
    \/ serialize_call
    \/ deserialize_call
    \/ codec_serialize_call
    \/ codec_roundtrip
    \/ frame_call
    \/ unframe_framed
    \/ unframe_call
    \/ return

Spec == Init /\ [][Next]_vars

-----------------------------------------------------------------------------
(* Threads calling get_by_id(id) on the one CachedSchemaRegistryClient the *)
(* serializers of a consumer share.  A call looks the id up in the cache,  *)
(* on a miss asks the registry, stores the answer and returns it.          *)

\* the cache lookup: a hit returns the cached schema
get_by_id_lookup(t) ==
    /\ threads[t].pc = "idle"
    /\ \E i \in KnownIds :
          threads' = [threads EXCEPT ![t] =
              IF id_to_schema[i] # NoneSchema
              THEN [pc |-> "done", id |-> i, hit |-> TRUE, schema |-> id_to_schema[i]]
              ELSE [pc |-> "round_trip", id |-> i, hit |-> FALSE, schema |-> NoneSchema]]
    /\ UNCHANGED << id_to_schema, wrapperVars, codecVars, wireVars >>

\* the registry's answer: the schema registered under the id
get_by_id_round_trip(t) ==
    /\ threads[t].pc = "round_trip"
    /\ threads' = [threads EXCEPT ![t].pc = "store",
                                  ![t].schema = SchemaOfId(threads[t].id)]
    /\ UNCHANGED << id_to_schema, wrapperVars, codecVars, wireVars >>

\* the entry written in two steps, the first leaving it incomplete
get_by_id_store_in_two_steps(t) ==
    /\ threads[t].pc = "store"
    /\ IF id_to_schema[threads[t].id] = NoneSchema
       THEN /\ id_to_schema' = [id_to_schema EXCEPT ![threads[t].id] = "partial"]
            /\ UNCHANGED threads
       ELSE /\ id_to_schema' = [id_to_schema EXCEPT ![threads[t].id] = threads[t].schema]
            /\ threads' = [threads EXCEPT ![t].pc = "done"]
    /\ UNCHANGED << wrapperVars, codecVars, wireVars >>

\* the cache is populated in one step, then the schema is returned
get_by_id_store(t) ==
    /\ threads[t].pc = "store"
    /\ id_to_schema' = [id_to_schema EXCEPT ![threads[t].id] = threads[t].schema]
    /\ threads' = [threads EXCEPT ![t].pc = "done"]
    /\ UNCHANGED << wrapperVars, codecVars, wireVars >>

get_by_id_step(t) ==
    \/ get_by_id_lookup(t)
    \/ get_by_id_round_trip(t)
    \/ get_by_id_store(t)

NextRegistry == \E t \in Threads : get_by_id_step(t)

\* every thread that can take a step eventually takes one: threads are
\* scheduled and the registry answers
SpecRegistry ==
    Init /\ [][NextRegistry]_vars /\ \A t \in Threads : WF_vars(get_by_id_step(t))

-----------------------------------------------------------------------------
(* Properties                                                              *)

\* the i-th call of this invocation was a serializer call that raised
SerializeFailed(i) == events[i].op = "serialize" /\ ~events[i].ok
DeserializeFailed(i) == events[i].op = "deserialize" /\ ~events[i].ok

\* the keyword arguments left after the four pops of produce
Passthrough(kw) == [kw EXCEPT !.key = AbsentValue, !.value = AbsentValue,
                              !.key_schema = AbsentSchema,
                              !.value_schema = AbsentSchema]

\* C1: in produce, a serializer call that raised is the last call of the
\* invocation: after a key failure neither the value serializer nor the
\* transport is called, after a value failure the transport is not called.
C1_NoPartialSend ==
    \A i \in DOMAIN events :
        SerializeFailed(i) =>
            /\ \A j \in DOMAIN events : j > i => events[j].op \notin {"serialize", "produce"}
            /\ sent = << >>

\* a produce call ended by a key failure although a value was passed
C1_Witness ==
    /\ pc = "produce_done"
    /\ Len(events) = 1
    /\ SerializeFailed(1)
    /\ events[1].part = "key"
    /\ passed.value.t = "obj"

\* C2: a produce call that succeeds made exactly three calls, in the order
\* key serializer, value serializer, transport produce, and the transport got
\* the topic, the key serializer's result as key, the value serializer's
\* result as value and the keyword arguments without key, value, key_schema
\* and value_schema; no call reaches the transport more than once.
C2_OrderedSingleSend ==
    /\ Len(sent) <= 1
    /\ (pc = "produce_done" /\ raised = NoError) =>
          /\ Len(events) = 3
          /\ events[1].op = "serialize" /\ events[1].part = "key" /\ events[1].ok
          /\ events[2].op = "serialize" /\ events[2].part = "value" /\ events[2].ok
          /\ events[3].op = "produce"
          /\ Len(sent) = 1
          /\ sent[1].topic = topic
          /\ sent[1].key = events[1].out
          /\ sent[1].value = events[2].out
          /\ sent[1].kwargs = Passthrough(passed)

\* a successful produce of two different payloads with a passthrough option
C2_Witness ==
    /\ pc = "produce_done"
    /\ Len(sent) = 1
    /\ sent[1].key.t = "bytes"
    /\ sent[1].value.t = "bytes"
    /\ sent[1].key # sent[1].value
    /\ sent[1].kwargs.partition = 0
    /\ passed.key_schema = "S1"

\* C3: when a serializer call of produce raised, the caller gets
\* KeySerializerError for the key and ValueSerializerError for the value, with
\* the message of the serializer's error.
C3_FieldAttribution ==
    pc = "produce_done" =>
        \A i \in DOMAIN events :
            SerializeFailed(i) =>
                /\ raised.kind = IF events[i].part = "key" THEN "KeySerializerError"
                                 ELSE "ValueSerializerError"
                /\ raised.cause = events[i].err

\* a produce call ended by a value failure after the key was serialized
C3_Witness ==
    /\ pc = "produce_done"
    /\ Len(events) = 2
    /\ events[1].out.t = "bytes"
    /\ SerializeFailed(2)
    /\ raised.cause = "encoding failed"

\* C4: when the polled record carries a transport error, no deserializer is
\* called and the record is returned as the transport gave it.
C4_TransportErrorUntouched ==
    (polled.present /\ polled.error) =>
        /\ \A i \in DOMAIN events : events[i].op # "deserialize"
        /\ pc = "poll_done"
        /\ ret = "message"
        /\ message = polled
        /\ raised = NoError

\* an error record with decodable key and value was returned
C4_Witness ==
    /\ pc = "poll_done"
    /\ polled.error
    /\ polled.key = PyBytes(frame(1, << 2 >>))
    /\ polled.value = PyBytes(frame(1, << 2 >>))

\* C5: a deserializer call of poll that raised is the last call of the
\* invocation, nothing is returned, and the caller gets one SerializerError
\* built from the record's topic, partition and offset and the cause.
C5_LocatedError ==
    \A i \in DOMAIN events :
        DeserializeFailed(i) =>
            /\ i = Len(events)
            /\ pc = "poll_done"
            /\ ret = ""
            /\ raised.kind = "SerializerError"
            /\ raised.topic = polled.topic
            /\ raised.partition = polled.partition
            /\ raised.offset = polled.offset
            /\ raised.cause = events[i].err

\* the key of a record failed to deserialize after its value was decoded
C5_Witness ==
    /\ pc = "poll_done"
    /\ Len(events) = 3
    /\ DeserializeFailed(3)
    /\ events[3].part = "key"
    /\ polled.partition # polled.offset

\* the struct format each fixed-width serializer packs with
FormatOf(class) ==
    CASE class = "DoubleSerializer" -> "d"
      [] class = "FloatSerializer" -> "f"
      [] class = "LongSerializer" -> "q"
      [] class = "IntegerSerializer" -> "i"
      [] class = "ShortSerializer" -> "h"

\* C6: a primitive deserialize either returns or raises SerializerError, no
\* other exception class; on input whose length is not the serializer's width
\* it raises SerializerError built from the struct error, and on bytes that
\* are not valid in the configured encoding StringSerializer raises
\* SerializerError.
C6_CodecErrorOnly ==
    pc = "deserialize_done" =>
        /\ result.kind \in {"ok", "None", "SerializerError"}
        /\ (/\ data # PyNone
            /\ codec.class # "StringSerializer"
            /\ Len(data.b) # calcsize(FormatOf(codec.class)))
              => (result.kind = "SerializerError" /\ result.cause = "struct.error")

\* C7: serialize of a non-null value with neither an override nor a bound
\* default schema raises the configuration error without any registry client
\* call, in a direct call and in the key and value calls of produce.
C7_NoSchemaConfigError ==
    /\ (/\ pc = "serialize_done"
        /\ ser.datum # PyNone
        /\ ser.schema = NoneSchema
        /\ ser.self.schema = NoneSchema)
          => (ser.kind = "SerializationConfigError" /\ regLog = << >>)
    /\ \A i \in DOMAIN events :
          (/\ events[i].op = "serialize"
           /\ events[i].datum # PyNone
           /\ events[i].schema = NoneSchema
           /\ (IF events[i].part = "key" THEN producer.key_serializer.schema
               ELSE producer.value_serializer.schema) = NoneSchema)
             => /\ events[i].kind = "SerializationConfigError"
                /\ \A k \in DOMAIN regLog :
                      regLog[k].subject # SubjectName(events[i])

\* a direct call without any schema failed while the registry was answering
C7_Witness ==
    /\ pc = "serialize_done"
    /\ ser.datum.t = "obj"
    /\ ser.schema = NoneSchema
    /\ ser.self.schema = NoneSchema
    /\ ser.kind = "SerializationConfigError"
    /\ regUp

\* C8: every serialize call of produce and every deserialize call of poll is
\* given a context whose topic is the record's topic and whose field is KEY
\* for the key call and VALUE for the value call.
C8_ContextPassed ==
    \A i \in DOMAIN events :
        events[i].op \in {"serialize", "deserialize"} =>
            /\ events[i].ctx # 0
            /\ events[i].topic = IF events[i].op = "serialize" THEN topic
                                 ELSE polled.topic
            /\ events[i].field = IF events[i].part = "key" THEN "KEY" ELSE "VALUE"

\* C9: a context object reads, at every later point of the call, the topic
\* and the field it read when a serializer was given it.
C9_ContextImmutable ==
    \A i \in DOMAIN events :
        events[i].ctx # 0 =>
            heap[events[i].ctx] = SerializationContext(events[i].topic, events[i].field)

\* C10: serialize of None returns None without applying the converter and
\* without any registry client call, whatever the override and the bound
\* default; produce hands None to the transport for a key or value that is
\* None or not passed.
C10_NullShortCircuit ==
    /\ (pc = "serialize_done" /\ ser.datum = PyNone) =>
          /\ ser.kind = ""
          /\ ser.out = PyNone
          /\ ~ser.converted
          /\ regLog = << >>
    /\ \A i \in DOMAIN events :
          (events[i].op = "serialize" /\ events[i].datum = PyNone) =>
              (events[i].ok /\ events[i].out = PyNone)
    /\ \A i \in DOMAIN sent :
          /\ (PopValue(passed, "key") = PyNone => sent[i].key = PyNone)
          /\ (PopValue(passed, "value") = PyNone => sent[i].value = PyNone)
    /\ (pc = "produce_done" /\ PopValue(passed, "key") = PyNone
                            /\ PopValue(passed, "value") = PyNone) =>
          (regLog = << >> /\ Len(sent) = 1)

\* None was serialized by an instance with a converter and no bound schema
C10_Witness ==
    /\ pc = "serialize_done"
    /\ ser.datum = PyNone
    /\ ser.self.converter
    /\ ser.self.schema = NoneSchema
    /\ ser.schema = "S1"
    /\ ser.out = PyNone

\* the schema a serialize call must encode with: the override when one is
\* given, the bound schema otherwise
Effective(override, bound) == IF override # NoneSchema THEN override ELSE bound

\* the serializer instance of produce that served the i-th call
InstanceOf(i) == IF events[i].part = "key" THEN producer.key_serializer
                 ELSE producer.value_serializer

\* C11: a non-null value is registered and framed under the override schema
\* when one is passed and under the bound default only when none is passed,
\* in a direct call and in both calls of produce; no step changes the schema
\* bound to the producer's serializers.
C11_EffectiveSchema_State ==
    /\ (pc = "serialize_done" /\ ser.datum # PyNone
            /\ Effective(ser.schema, ser.self.schema) # NoneSchema) =>
          /\ Len(regLog) = 1
          /\ regLog[1].schema = Effective(ser.schema, ser.self.schema)
          /\ (ser.kind = "" =>
                unframe(ser.out.b).id = SchemaId(Effective(ser.schema, ser.self.schema)))
    /\ \A i \in DOMAIN events :
          (/\ events[i].op = "serialize"
           /\ events[i].datum # PyNone
           /\ Effective(events[i].schema, InstanceOf(i).schema) # NoneSchema) =>
              /\ \E k \in DOMAIN regLog : regLog[k].subject = SubjectName(events[i])
              /\ \A k \in DOMAIN regLog :
                    regLog[k].subject = SubjectName(events[i]) =>
                        regLog[k].schema = Effective(events[i].schema, InstanceOf(i).schema)
              /\ (events[i].ok =>
                    unframe(events[i].out.b).id =
                        SchemaId(Effective(events[i].schema, InstanceOf(i).schema)))

C11_EffectiveSchema ==
    [] C11_EffectiveSchema_State /\ [][producer' = producer]_vars

\* a value was framed under the override although another schema is bound
C11_Witness ==
    /\ pc = "serialize_done"
    /\ ser.self.schema = "S1"
    /\ ser.schema = "S2"
    /\ ser.kind = ""
    /\ ser.datum = PyObj("b")
    /\ unframe(ser.out.b).id = SchemaId("S2")

FloatClasses == {"DoubleSerializer", "FloatSerializer"}

IsNaN(v) == v[2] = 2047 /\ (v[3] # 0 \/ v[4] # 0 \/ v[5] # 0 \/ v[6] # 0)
IsZero(v) == v[2] = 0 /\ v[3] = 0 /\ v[4] = 0 /\ v[5] = 0 /\ v[6] = 0

\* Python's == on two floats
FloatEq(a, b) == ~IsNaN(a) /\ ~IsNaN(b) /\ (a = b \/ (IsZero(a) /\ IsZero(b)))

\* Python's == on two values of the type of serializer class
Equal(class, a, b) ==
    CASE class \in FloatClasses -> FloatEq(a, b)
      [] class = "StringSerializer" -> a = b
      [] OTHER -> Limbs(a) = Limbs(b)

\* the n low-order bits of the fraction of the double v are 0
LowBitsZero(v, n) ==
    IF n <= 16 THEN v[6] % Pow2(n) = 0
    ELSE IF n <= 32 THEN v[6] = 0 /\ v[5] % Pow2(n - 16) = 0
    ELSE IF n <= 48 THEN v[6] = 0 /\ v[5] = 0 /\ v[4] % Pow2(n - 32) = 0
    ELSE v[6] = 0 /\ v[5] = 0 /\ v[4] = 0 /\ v[3] % Pow2(n - 48) = 0

\* the double v is the value of an IEEE 754 single
SingleValued(v) ==
    \/ v[2] = 2047
    \/ IsZero(v)
    \/ v[2] >= 897 /\ v[2] <= 1150 /\ LowBitsZero(v, 29)
    \/ v[2] >= 874 /\ v[2] <= 896 /\ LowBitsZero(v, 926 - v[2])

\* v is representable in the type of serializer c on interpreter p
Representable(c, v, p) ==
    CASE c.class = "ShortSerializer" -> InRange("h", Limbs(v))
      [] c.class = "IntegerSerializer" -> InRange("i", Limbs(v))
      [] c.class = "LongSerializer" -> InRange("q", Limbs(v))
      [] c.class = "DoubleSerializer" -> TRUE
      [] c.class = "FloatSerializer" -> SingleValued(v)
      [] c.class = "StringSerializer" ->
            IF c.codec = "ascii" THEN \A i \in 1..Len(v) : v[i] < 128
            ELSE p = 2 \/ \A i \in 1..Len(v) : v[i] < 55296 \/ v[i] > 57343

\* the argument of the serialize call is a float NaN
NaNInput == codec.class \in FloatClasses /\ ~input.none /\ IsNaN(input.v)

\* C12 as stated: serialize of a representable value returns, and
\* deserialize of what it returned gives a value equal (==) to the argument.
C12_RoundTrip ==
    /\ (pc = "packed" /\ ~input.none /\ Representable(codec, input.v, py))
          => packed.kind = "ok"
    /\ (pc = "deserialize_done" /\ packed.kind = "ok"
            /\ Representable(codec, input.v, py))
          => (result.kind = "ok" /\ Equal(codec.class, result.value, input.v))

\* C12 amended: the round trip gives a value equal to the argument for every
\* representable value except a float NaN; a NaN comes back as a NaN, which
\* compares unequal to the argument as every NaN does.
C12_RoundTripButNaN ==
    /\ (pc = "packed" /\ ~input.none /\ Representable(codec, input.v, py))
          => packed.kind = "ok"
    /\ (pc = "deserialize_done" /\ packed.kind = "ok"
            /\ Representable(codec, input.v, py))
          => /\ result.kind = "ok"
             /\ ~NaNInput => Equal(codec.class, result.value, input.v)
             /\ NaNInput => IsNaN(result.value)

\* -2^63 went through LongSerializer and came back
C12_Witness ==
    /\ pc = "deserialize_done"
    /\ codec.class = "LongSerializer"
    /\ input = Value(<< -32768, 0, 0, 0 >>)
    /\ data = PyBytes(<< 128, 0, 0, 0, 0, 0, 0, 0 >>)
    /\ result = Returned(<< -32768, 0, 0, 0 >>)

\* C13: serialize(None) returns None and deserialize(None) returns None, for
\* every primitive serializer, with no exception.
C13_NoneBothWays ==
    /\ (pc = "packed" /\ input.none) => packed = ReturnedNone
    /\ (pc = "deserialize_done" /\ data = PyNone) => result = ReturnedNone

\* None went through serialize and then deserialize of DoubleSerializer
C13_Witness ==
    /\ pc = "deserialize_done"
    /\ codec.class = "DoubleSerializer"
    /\ input.none
    /\ packed = ReturnedNone
    /\ data = PyNone
    /\ result = ReturnedNone

\* the widths the fixed-width serializers are to produce
WidthOf(class) ==
    CASE class = "ShortSerializer" -> 2
      [] class = "IntegerSerializer" -> 4
      [] class = "LongSerializer" -> 8
      [] class = "DoubleSerializer" -> 8
      [] class = "FloatSerializer" -> 4

\* v is within the range of the type of the fixed-width serializer class
InRangeOf(class, v) ==
    CASE class = "DoubleSerializer" -> TRUE
      [] class = "FloatSerializer" ->
            \/ v[2] = 2047
            \/ v[2] < 1150
            \/ v[2] = 1150 /\ (v[3] < 15 \/ v[4] < 65535 \/ v[5] < 57344
                                \/ LowBitsZero(v, 29))
      [] OTHER -> InRange(FormatOf(class), Limbs(v))

\* b holds v most significant byte first: an integer limb by limb, a float
\* with the sign bit first and, for a double, the exponent after it
BigEndian(class, v, b) ==
    IF class \in FloatClasses
    THEN /\ b[1] \div 128 = v[1]
         /\ class = "DoubleSerializer" => (b[1] % 128) * 16 + b[2] \div 16 = v[2]
    ELSE \A k \in 1..(Len(b) \div 2) :
            b[2 * k - 1] * 256 + b[2 * k] = Limbs(v)[4 - Len(b) \div 2 + k] % 65536

\* C14: a fixed-width serialize of an in-range value returns, and whatever a
\* fixed-width serialize returns for a value has exactly the width of its
\* type (short 2, int 4, long 8, double 8, float 4) and is big-endian.
C14_ExactWidth ==
    (pc = "packed" /\ codec.class # "StringSerializer" /\ ~input.none) =>
        /\ InRangeOf(codec.class, input.v) => packed.kind = "ok"
        /\ packed.kind = "ok" =>
              /\ Len(packed.value) = WidthOf(codec.class)
              /\ BigEndian(codec.class, input.v, packed.value)

\* -2^15 was serialized to the two bytes 0x80 0x00
C14_Witness ==
    /\ pc = "packed"
    /\ codec.class = "ShortSerializer"
    /\ input = Value(<< -32768 >>)
    /\ packed = Returned(<< 128, 0 >>)

\* the bytes b are the 4-byte big-endian two's complement of i
BigEndianInt32(b, i) ==
    LET high == b[1] * 65536 + b[2] * 256 + b[3]
    IN  IF i >= 0
        THEN b[1] < 128 /\ high = i \div 256 /\ b[4] = i % 256
        ELSE /\ b[1] >= 128
             /\ 16777215 - high = (-(i + 1)) \div 256
             /\ 255 - b[4] = (-(i + 1)) % 256

\* C15: frame(i, b) is the byte 0, then i as a 4-byte big-endian signed
\* integer, then b, and unframe of it returns the pair (i, b), for the ids of
\* the signed 32-bit range and every body, the empty one included.
C15_FrameRoundTrip ==
    /\ (pc \in {"framed", "unframe_done"} /\ wire.framed) =>
          /\ Len(wire.bytes) = 5 + Len(wire.body)
          /\ wire.bytes[1] = 0
          /\ BigEndianInt32(SubSeq(wire.bytes, 2, 5), wire.id)
          /\ SubSeq(wire.bytes, 6, Len(wire.bytes)) = wire.body
    /\ (pc = "unframe_done" /\ wire.framed) =>
          /\ wire.ok
          /\ wire.out = << [id |-> wire.id, body |-> wire.body] >>

\* -2^31 with the empty body went through frame and unframe
C15_Witness ==
    /\ pc = "unframe_done"
    /\ wire.framed
    /\ wire.id = -2147483647 - 1
    /\ wire.body = << >>
    /\ wire.bytes = << 0, 128, 0, 0, 0 >>
    /\ wire.out = << [id |-> -2147483647 - 1, body |-> << >>] >>

\* b is shorter than the header or does not start with the magic byte 0
Malformed(b) == Len(b) <= 4 \/ b[1] # 0

\* the deserialize calls of this invocation whose payload was well-formed
WellFormedCalls ==
    {i \in DOMAIN events : /\ events[i].op = "deserialize"
                           /\ events[i].datum # PyNone
                           /\ ~Malformed(events[i].datum.b)}

\* C16: unframe of an input of length 0 to 4, or whose first byte is not 0,
\* fails with the malformed-payload error and returns no pair; in poll a
\* deserialize call given such a payload fails with that error, is the last
\* call of the invocation, makes poll raise, and the registry client is
\* called for the well-formed payloads only.
C16_MalformedRejected ==
    /\ (pc = "unframe_done" /\ Malformed(wire.bytes)) =>
          /\ ~wire.ok
          /\ wire.kind = "MalformedPayloadError"
          /\ wire.out = << >>
    /\ \A i \in DOMAIN events :
          (/\ events[i].op = "deserialize"
           /\ events[i].datum # PyNone
           /\ Malformed(events[i].datum.b)) =>
              /\ ~events[i].ok
              /\ events[i].kind = "MalformedPayloadError"
              /\ i = Len(events)
              /\ pc = "poll_done"
              /\ raised.kind = "SerializerError"
    /\ Cardinality({k \in DOMAIN regLog : regLog[k].op = "get_by_id"})
          = Cardinality(WellFormedCalls)

\* poll raised for a value one byte short of the header, without a lookup
C16_Witness ==
    /\ pc = "poll_done"
    /\ polled.value = PyBytes(<< 0, 0, 0, 1 >>)
    /\ Len(events) = 2
    /\ events[2].kind = "MalformedPayloadError"
    /\ regLog = << >>
    /\ raised.kind = "SerializerError"

\* every get_by_id call has returned
AllReturned == \A t \in Threads : threads[t].pc = "done"

\* what the calls that have returned got, and what the cache holds for them
C17_CacheConsistent ==
    /\ \A t \in Threads :
          threads[t].pc = "done" =>
              /\ threads[t].schema \in Schemas
              /\ id_to_schema[threads[t].id] = threads[t].schema
    /\ \A t, u \in Threads :
          (/\ threads[t].pc = "done"
           /\ threads[u].pc = "done"
           /\ threads[t].id = threads[u].id) => threads[t].schema = threads[u].schema
    /\ \A i \in KnownIds : id_to_schema[i] \in Schemas \cup {NoneSchema}

\* an id that is cached keeps its schema
C17_CacheStable ==
    \A i \in KnownIds :
        id_to_schema[i] # NoneSchema => id_to_schema'[i] = id_to_schema[i]

\* C17: threads calling get_by_id concurrently on one client: under every
\* interleaving the calls for one id return the same whole schema, the cache
\* (one entry per id) holds that schema for the id and never an incomplete
\* entry, a cached id is never changed or evicted, and every call
\* eventually returns.
C17_ConcurrentGetById ==
    /\ [] C17_CacheConsistent
    /\ [][C17_CacheStable]_vars
    /\ <> AllReturned

\* all threads asked for id 258, at least two of them missed the cache and
\* asked the registry, all have S2 and the cache holds this one entry
C17_Witness ==
    /\ AllReturned
    /\ \A t \in Threads : threads[t].id = 258 /\ threads[t].schema = "S2"
    /\ \E t, u \in Threads : t # u /\ ~threads[t].hit /\ ~threads[u].hit
    /\ id_to_schema = [i \in KnownIds |-> IF i = 258 THEN "S2" ELSE NoneSchema]

\* the deserialize calls of poll: the value first, the key only after the
\* value call returned
ValueBeforeKey ==
    \A i \in DOMAIN events :
        (events[i].op = "deserialize" /\ events[i].part = "key") =>
            /\ i > 1
            /\ events[i - 1].op = "deserialize"
            /\ events[i - 1].part = "value"
            /\ events[i - 1].ok

\* poll returned an error-free record: both fields hold what the two
\* deserialize calls returned
BothReplaced ==
    (pc = "poll_done" /\ ret = "message" /\ ~polled.error) =>
        /\ raised = NoError
        /\ Len(events) = 3
        /\ events[2].part = "value" /\ events[2].ok /\ message.value = events[2].out
        /\ events[3].part = "key" /\ events[3].ok /\ message.key = events[3].out

\* poll raised: the caller gets no record
NoRecordOnError == (pc = "poll_done" /\ raised # NoError) => ret = ""

\* C18 as stated: value before key, a record with both fields decoded or an
\* error and no record, and whenever poll raises neither field of the record
\* has been replaced.
C18_AllOrNothing ==
    /\ ValueBeforeKey
    /\ BothReplaced
    /\ NoRecordOnError
    /\ (pc = "poll_done" /\ raised # NoError) => message = polled

\* C18 amended: value before key, a record with both fields decoded or an
\* error and no record; when poll raises the key field is never replaced,
\* and the value field is untouched when the value call failed but already
\* holds the decoded value when the key call failed.
C18_ValueThenKey ==
    /\ ValueBeforeKey
    /\ BothReplaced
    /\ NoRecordOnError
    /\ (pc = "poll_done" /\ raised # NoError) =>
          /\ message.key = polled.key
          /\ DeserializeFailed(Len(events))
          /\ events[Len(events)].part = "value" => message = polled
          /\ events[Len(events)].part = "key" =>
                (Len(events) = 3 /\ message.value = events[2].out)

\* poll raised on the key after the value field was replaced
C18_Witness ==
    /\ pc = "poll_done"
    /\ raised # NoError
    /\ Len(events) = 3
    /\ DeserializeFailed(3)
    /\ events[3].part = "key"
    /\ polled.value = PyBytes(frame(1, << 2 >>))
    /\ message.value # polled.value
    /\ message.key = polled.key

====
